---------------------------- MODULE Spec2Model ----------------------------
(***************************************************************************)
(* Low level EIB bus access (src/src/eib/bus.cpp): the timer interrupt     *)
(* handler of the Bus object, its send queue and the foreground            *)
(* sendTelegram, together with the timer events and the peer transmitters  *)
(* that drive them.                                                        *)
(*                                                                         *)
(* The C++ handler is sequential code with fall-through cases and gotos.   *)
(* It is translated as operators over a record `s' that holds the fields   *)
(* of the Bus object, the timer registers the code programs and the        *)
(* caller-owned send buffers; one interrupt is one application of          *)
(* timerInterruptHandler, and the actions commit its result to the         *)
(* variables.                                                              *)
(***************************************************************************)
EXTENDS Integers, Sequences, FiniteSets, TLC

VARIABLES
    state,            \* Bus::state
    sendAck,          \* Bus::sendAck: 0, SB_BUS_ACK or SB_BUS_NACK
    sendCurTelegram,  \* Bus::sendCurTelegram: 0 (null) or a buffer id
    sendNextTel,      \* Bus::sendNextTel: 0 (null) or a buffer id
    collision,        \* Bus::collision
    nextByteIndex,    \* Bus::nextByteIndex
    checksum,         \* Bus::checksum
    valid,            \* Bus::valid
    currentByte,      \* Bus::currentByte (8 data bits and the parity bit)
    bitTime,          \* Bus::bitTime
    bitMask,          \* Bus::bitMask
    parity,           \* Bus::parity
    telegram,         \* Bus::telegram[SB_TELEGRAM_SIZE], indexed from 0
    telegramLen,      \* Bus::telegramLen
    sendTries,        \* Bus::sendTries
    sendTelegramLen,  \* Bus::sendTelegramLen
    pwmMatch,         \* timer.match(pwmChannel)
    timeMatch,        \* timer.match(timeChannel)
    timeInt,          \* timer.matchMode(timeChannel) has INTERRUPT
    capInt,           \* timer.captureMode(captureChannel) has INTERRUPT
    buf,              \* the callers' telegram buffers, by buffer id
    fault,            \* a null pointer was dereferenced (history)
    ownAddr,          \* Bus::ownAddr
    addrTab,          \* the group addresses indexOfAddr() knows
    statusTL,         \* userRam.status & BCU_STATUS_TL is set
    pcFg,             \* position of the foreground inside sendTelegram
    fgBuf,            \* sendTelegram's argument `telegram'
    fgLen,            \* sendTelegram's argument `length'
    callsLeft,        \* sendTelegram calls the foreground may still make
    fgSeen,           \* the send slots as they were when the call was made
    peer,             \* the foreign transmitter: words left, next cell, sync
    peerLeft,         \* frames the foreign transmitters may still start
    orig,             \* each buffer as prepareTelegram left it (history)
    held,             \* buffers accepted by sendTelegram, not yet released
    attempts,         \* send attempts started, per buffer (history)
    completed,        \* send attempts that reached SEND_END, per buffer
    aborted,          \* send attempts cut short by a collision, per buffer
    txLog,            \* the bytes loaded in SEND_BIT_0 since SEND_INIT armed
    rxLog,            \* the 9 bit words stored since the reception began
    quiet,            \* no foreign edge since the last handleTelegram
    rxEnd,            \* what the last run of handleTelegram saw and did
    rx,               \* a second Bus object that listens on the line
    txClock,          \* the timer's value, while the second Bus listens
    rxClock           \* the value of the second Bus's timer

busVars == <<state, sendAck, sendCurTelegram, sendNextTel, collision,
             nextByteIndex, checksum, valid, currentByte, bitTime, bitMask,
             parity, telegram, telegramLen, sendTries, sendTelegramLen,
             pwmMatch, timeMatch, timeInt, capInt, buf, fault>>
cfgVars == <<ownAddr, addrTab, statusTL>>
fgVars == <<pcFg, fgBuf, fgLen, callsLeft, fgSeen>>
peerVars == <<peer, peerLeft>>
histVars == <<orig, held, attempts, completed, aborted, txLog, rxLog, quiet, rxEnd>>
loopVars == <<rx, txClock, rxClock>>
vars == <<busVars, cfgVars, fgVars, peerVars, histVars, loopVars>>

---------------------------------------------------------------------------
(* Constants of bus.cpp *)

SB_TEL_REPEAT_FLAG == 32
BIT_TIME == 104
BIT_WAIT_TIME == 69
BIT_PULSE_TIME == 35
BYTE_TIME == 1090
SEND_ACK_WAIT_TIME == 1177
SEND_WAIT_TIME == 5200
PRE_SEND_TIME == 104
MATCH_OFF == 65535
MATCH_IDLE == 65534
COLLISION_MARGIN == 10
SEND_TRIES_LIMIT == 3

(* Constants of the headers, as the specification gives them *)

SB_BUS_ACK == 204
SB_BUS_NACK == 12
SB_TELEGRAM_SIZE == 24
SB_BUS_BUSY == 192

---------------------------------------------------------------------------
(* Bounds of the model *)

NumBufs == 3
MaxCalls == 3
MaxPeerFrames == 1
MaxCount == 6
PeerSlack == 2
RetryCalls == 2
MaxCollisions == 2
PrepSize == 10
MaxRecvFrames == 2
MaxCollFrames == 2
MaxReplies == 2
MaxFrameLen == 26

---------------------------------------------------------------------------
(* Integer bit operations, as C computes them on non-negative ints *)

\* a ^ b, bit by bit
XorN[a \in Nat, b \in Nat] ==
    IF a = 0 /\ b = 0 THEN 0
    ELSE (((a % 2) + (b % 2)) % 2) + 2 * XorN[a \div 2, b \div 2]

Xor(a, b) == XorN[a, b]

\* x & m # 0, for a mask m that is a power of two
Test(x, m) == (x \div m) % 2 = 1

\* x | m and x & ~m, for a mask m that is a power of two
OrBit(x, m) == IF Test(x, m) THEN x ELSE x + m
ClearBit(x, m) == IF Test(x, m) THEN x - m ELSE x

Byte(x) == x % 256

\* number of 1 bits among the low n bits of x
OnesN[x \in Nat, n \in Nat] ==
    IF n = 0 THEN 0 ELSE (x % 2) + OnesN[x \div 2, n - 1]

Ones(x, n) == OnesN[x, n]

\* buf[b][i], with C's index from 0
At(t, i) == t[i + 1]
Put(t, i, v) == [t EXCEPT ![i + 1] = v]

\* telegramSize(tel): the length of the telegram without the checksum
telegramSize(tel) == 7 + (At(tel, 5) % 16)

---------------------------------------------------------------------------
(* The Bus object, the timer registers and the send buffers as one record *)

Cur ==
    [state |-> state, sendAck |-> sendAck, sendCurTelegram |-> sendCurTelegram,
     sendNextTel |-> sendNextTel, collision |-> collision,
     nextByteIndex |-> nextByteIndex, checksum |-> checksum, valid |-> valid,
     currentByte |-> currentByte, bitTime |-> bitTime, bitMask |-> bitMask,
     parity |-> parity, telegram |-> telegram, telegramLen |-> telegramLen,
     sendTries |-> sendTries, sendTelegramLen |-> sendTelegramLen,
     pwmMatch |-> pwmMatch, timeMatch |-> timeMatch, timeInt |-> timeInt,
     capInt |-> capInt, buf |-> buf, fault |-> fault,
     ownAddr |-> ownAddr, addrTab |-> addrTab, statusTL |-> statusTL,
     pub |-> FALSE]

Commit(s) ==
    /\ state' = s.state
    /\ sendAck' = s.sendAck
    /\ sendCurTelegram' = s.sendCurTelegram
    /\ sendNextTel' = s.sendNextTel
    /\ collision' = s.collision
    /\ nextByteIndex' = s.nextByteIndex
    /\ checksum' = s.checksum
    /\ valid' = s.valid
    /\ currentByte' = s.currentByte
    /\ bitTime' = s.bitTime
    /\ bitMask' = s.bitMask
    /\ parity' = s.parity
    /\ telegram' = s.telegram
    /\ telegramLen' = s.telegramLen
    /\ sendTries' = s.sendTries
    /\ sendTelegramLen' = s.sendTelegramLen
    /\ pwmMatch' = s.pwmMatch
    /\ timeMatch' = s.timeMatch
    /\ timeInt' = s.timeInt
    /\ capInt' = s.capInt
    /\ buf' = s.buf
    /\ fault' = s.fault

\* The inputs of one interrupt: the timer's flags and its capture register
Event(cap, tmo, capVal) == [cap |-> cap, tmo |-> tmo, capVal |-> capVal]

---------------------------------------------------------------------------
(* Bus::idleState *)

idleState(s) ==
    [s EXCEPT !.capInt = TRUE, !.timeInt = FALSE, !.timeMatch = MATCH_IDLE,
              !.pwmMatch = MATCH_OFF, !.state = "IDLE", !.sendAck = 0]

\* a sendNextTelegram that keeps the retry counter
sendNextTelegram_keepTries(s) ==
    LET cur == s.sendCurTelegram
    IN  [s EXCEPT !.buf = IF cur = 0 THEN @
                          ELSE [@ EXCEPT ![cur] = Put(@, 0, 0)],
                  !.fault = @ \/ cur = 0,
                  !.sendCurTelegram = s.sendNextTel,
                  !.sendNextTel = 0,
                  !.sendTelegramLen = 0]

(* Bus::sendNextTelegram.  The write through a null sendCurTelegram is *)
(* recorded in fault and changes no buffer.                            *)
sendNextTelegram(s) ==
    LET cur == s.sendCurTelegram
    IN  [s EXCEPT !.buf = IF cur = 0 THEN @
                          ELSE [@ EXCEPT ![cur] = Put(@, 0, 0)],
                  !.fault = @ \/ cur = 0,
                  !.sendCurTelegram = s.sendNextTel,
                  !.sendNextTel = 0,
                  !.sendTries = 0,
                  !.sendTelegramLen = 0]

(* indexOfAddr(destAddr) >= 0 *)

indexOfAddrFound(s, destAddr) == destAddr \in s.addrTab

\* a handleTelegram that takes every group address as its own
processTel_anyGroup(s) ==
    LET destAddr == s.telegram[3] * 256 + s.telegram[4]
    IN  IF s.telegram[5] >= 128
        THEN TRUE
        ELSE destAddr = s.ownAddr

(* The ACK decision of handleTelegram: processTel *)

processTel(s) ==
    LET destAddr == s.telegram[3] * 256 + s.telegram[4]
    IN  IF s.telegram[5] >= 128
        THEN destAddr = 0 \/ indexOfAddrFound(s, destAddr)
        ELSE destAddr = s.ownAddr

\* a handleTelegram that takes every single byte for an acknowledgement
handleTelegram_anyByte(s, isValid) ==
    LET s0 == [s EXCEPT !.sendAck = 0]
        s1 ==
          IF s0.collision THEN s0
          ELSE IF s0.nextByteIndex >= 8 /\ isValid
          THEN IF ~s0.statusTL
               THEN [s0 EXCEPT !.telegramLen = s0.nextByteIndex, !.pub = TRUE]
               ELSE IF processTel(s0)
               THEN [s0 EXCEPT !.telegramLen = s0.nextByteIndex, !.pub = TRUE,
                               !.sendAck = SB_BUS_ACK]
               ELSE s0
          ELSE IF s0.nextByteIndex = 1
          THEN LET s2 == [s0 EXCEPT !.currentByte = Byte(@)]
               IN  IF s2.sendCurTelegram # 0
                   THEN sendNextTelegram(s2)
                   ELSE s2
          ELSE [s0 EXCEPT !.telegramLen = 0, !.sendAck = SB_BUS_NACK]
    IN  [s1 EXCEPT !.timeMatch = IF s1.sendAck # 0
                                 THEN SEND_ACK_WAIT_TIME - PRE_SEND_TIME
                                 ELSE SEND_WAIT_TIME - PRE_SEND_TIME,
                   !.timeInt = TRUE,
                   !.capInt = TRUE,
                   !.collision = FALSE,
                   !.state = "SEND_INIT"]

(* Bus::handleTelegram *)

handleTelegram(s, isValid) ==
    LET s0 == [s EXCEPT !.sendAck = 0]
        s1 ==
          IF s0.collision THEN s0
          ELSE IF s0.nextByteIndex >= 8 /\ isValid
          THEN IF ~s0.statusTL
               THEN [s0 EXCEPT !.telegramLen = s0.nextByteIndex, !.pub = TRUE]
               ELSE IF processTel(s0)
               THEN [s0 EXCEPT !.telegramLen = s0.nextByteIndex, !.pub = TRUE,
                               !.sendAck = SB_BUS_ACK]
               ELSE s0
          ELSE IF s0.nextByteIndex = 1
          THEN LET s2 == [s0 EXCEPT !.currentByte = Byte(@)]
               IN  IF (s2.currentByte = SB_BUS_ACK
                         \/ s2.sendTries > SEND_TRIES_LIMIT)
                      /\ s2.sendCurTelegram # 0
                   THEN sendNextTelegram(s2)
                   ELSE s2
          ELSE [s0 EXCEPT !.telegramLen = 0, !.sendAck = SB_BUS_NACK]
    IN  [s1 EXCEPT !.timeMatch = IF s1.sendAck # 0
                                 THEN SEND_ACK_WAIT_TIME - PRE_SEND_TIME
                                 ELSE SEND_WAIT_TIME - PRE_SEND_TIME,
                   !.timeInt = TRUE,
                   !.capInt = TRUE,
                   !.collision = FALSE,
                   !.state = "SEND_INIT"]

---------------------------------------------------------------------------
(* Bus::timerInterruptHandler, one operator per case of the switch *)

\* case RECV_START
caseRECV_START(s, in) ==
    IF ~in.cap
    THEN handleTelegram(s, s.valid # 0 /\ s.checksum = 0)
    ELSE [s EXCEPT !.timeMatch = BYTE_TIME, !.timeInt = TRUE,
                   !.state = "RECV_BYTE", !.currentByte = 0, !.bitTime = 0,
                   !.bitMask = 1, !.parity = 1]

\* case IDLE, which falls through into RECV_START
caseIDLE(s, in) ==
    IF ~in.cap THEN s
    ELSE caseRECV_START([s EXCEPT !.nextByteIndex = 0, !.collision = FALSE,
                                  !.checksum = 255, !.sendAck = 0,
                                  !.valid = 1], in)

\* the while loop of RECV_BYTE: one run of 1 bits
recvLoop[time \in Nat, cb \in Nat, par \in Nat, bt \in Nat, bm \in Nat] ==
    IF time >= bt + BIT_WAIT_TIME /\ bm <= 256
    THEN recvLoop[time, OrBit(cb, bm), 1 - par, bt + BIT_TIME, bm * 2]
    ELSE <<cb, par, bt, bm>>

recvOnes(s, time) ==
    LET r == recvLoop[time, s.currentByte, s.parity, s.bitTime, s.bitMask]
    IN  [s EXCEPT !.currentByte = r[1], !.parity = r[2],
                  !.bitTime = r[3], !.bitMask = r[4]]

\* a RECV_BYTE that stores one byte more than the buffer holds
caseRECV_BYTE_offByOne(s, in) ==
    LET timeout == in.tmo
        time == IF timeout THEN BYTE_TIME ELSE in.capVal
        s1 == IF time >= s.bitTime + BIT_WAIT_TIME
              THEN LET r == recvOnes([s EXCEPT !.bitTime = @ + BIT_TIME], time)
                   IN  [r EXCEPT !.bitMask = @ * 2]
              ELSE s
    IN  IF timeout
        THEN LET s2 == [s1 EXCEPT !.valid = IF @ # 0 /\ s1.parity # 0
                                            THEN 1 ELSE 0]
                 s3 == IF s2.nextByteIndex <= SB_TELEGRAM_SIZE
                       THEN [s2 EXCEPT
                               !.telegram[s2.nextByteIndex] = Byte(s2.currentByte),
                               !.nextByteIndex = @ + 1,
                               !.checksum = Xor(@, s2.currentByte)]
                       ELSE s2
             IN  [s3 EXCEPT !.state = "RECV_START", !.timeMatch = BIT_TIME * 4]
        ELSE s1

\* case RECV_BYTE
caseRECV_BYTE(s, in) ==
    LET timeout == in.tmo
        time == IF timeout THEN BYTE_TIME ELSE in.capVal
        s1 == IF time >= s.bitTime + BIT_WAIT_TIME
              THEN LET r == recvOnes([s EXCEPT !.bitTime = @ + BIT_TIME], time)
                   IN  [r EXCEPT !.bitMask = @ * 2]
              ELSE s
    IN  IF timeout
        THEN LET s2 == [s1 EXCEPT !.valid = IF @ # 0 /\ s1.parity # 0
                                            THEN 1 ELSE 0]
                 s3 == IF s2.nextByteIndex < SB_TELEGRAM_SIZE
                       THEN [s2 EXCEPT
                               !.telegram[s2.nextByteIndex] = Byte(s2.currentByte),
                               !.nextByteIndex = @ + 1,
                               !.checksum = Xor(@, s2.currentByte)]
                       ELSE s2
             IN  [s3 EXCEPT !.state = "RECV_START", !.timeMatch = BIT_TIME * 4]
        ELSE s1

\* a handler that allows one more try
triesExhausted_oneMore(s) == s.sendTries > SEND_TRIES_LIMIT + 1

\* if (sendTries > 3): the telegram is given up
triesExhausted(s) == s.sendTries > SEND_TRIES_LIMIT

\* a handler whose first repeat does not count one more try
markRepeated_noCount(s, cur, len) ==
    IF s.sendTries = 1
    THEN LET tel == s.buf[cur]
         IN  [s EXCEPT
                !.buf[cur] =
                   Put(Put(tel, 0, ClearBit(At(tel, 0), SB_TEL_REPEAT_FLAG)),
                       len - 1, Xor(At(tel, len - 1), SB_TEL_REPEAT_FLAG))]
    ELSE s

\* if (sendTries == 1) { ... }: the first repeat marks the telegram as
\* repeated, corrects the checksum and counts one more try
markRepeated(s, cur, len) ==
    IF s.sendTries = 1
    THEN LET tel == s.buf[cur]
         IN  [s EXCEPT
                !.buf[cur] =
                   Put(Put(tel, 0, ClearBit(At(tel, 0), SB_TEL_REPEAT_FLAG)),
                       len - 1, Xor(At(tel, len - 1), SB_TEL_REPEAT_FLAG)),
                !.sendTries = @ + 1]
    ELSE s

\* case SEND_INIT
caseSEND_INIT(s, in) ==
    IF in.cap THEN caseIDLE([s EXCEPT !.state = "IDLE"], in)
    ELSE
      LET arm(t, time) ==
            [t EXCEPT !.pwmMatch = time,
                      !.timeMatch = time + BIT_PULSE_TIME,
                      !.timeInt = TRUE, !.capInt = TRUE,
                      !.nextByteIndex = 0, !.state = "SEND_START_BIT"]
      IN  IF s.sendAck # 0
          THEN arm([s EXCEPT !.sendTelegramLen = 0], PRE_SEND_TIME)
          ELSE
            LET s1 == IF triesExhausted(s) THEN sendNextTelegram(s) ELSE s
                cur == s1.sendCurTelegram
            IN  IF cur # 0
                THEN
                  LET tel == s1.buf[cur]
                      time == PRE_SEND_TIME
                                + ((At(tel, 0) \div 4) % 4) * BIT_TIME
                      len == telegramSize(tel) + 1
                      s2 == [s1 EXCEPT !.sendTelegramLen = len]
                  IN  arm(markRepeated(s2, cur, len), time)
                ELSE idleState(s1)

\* case SEND_WAIT, which jumps to SEND_INIT
caseSEND_WAIT(s, in) ==
    IF in.cap /\ in.capVal < SEND_ACK_WAIT_TIME THEN s
    ELSE caseSEND_INIT([s EXCEPT !.state = "SEND_INIT"], in)

\* the while loop of SEND_BIT: skip the run of 1 bits
sendLoop[cb \in Nat, bm \in Nat, time \in Nat] ==
    IF Test(cb, bm) /\ bm <= 256
    THEN sendLoop[cb, bm * 2, time + BIT_TIME]
    ELSE <<bm, time>>

sendOnes(s, time) ==
    LET r == sendLoop[s.currentByte, s.bitMask, time]
    IN  [s |-> [s EXCEPT !.bitMask = r[1]], time |-> r[2]]

\* a SEND_BIT that leaves six bit times between two bytes
caseSEND_BIT_longGap(s) ==
    LET r == sendOnes(s, BIT_TIME)
        s1 == [r.s EXCEPT !.bitMask = @ * 2]
        endOfByte == s1.bitMask > 512
        time == IF endOfByte THEN r.time + BIT_TIME * 6 ELSE r.time
        next == IF endOfByte
                THEN IF s1.nextByteIndex < s1.sendTelegramLen /\ s1.sendAck = 0
                     THEN "SEND_BIT_0" ELSE "SEND_END"
                ELSE IF r.time <= BIT_TIME THEN "SEND_BIT" ELSE "SEND_BIT_WAIT"
    IN  [s1 EXCEPT !.state = next,
                   !.capInt = (next = "SEND_BIT_WAIT"),
                   !.pwmMatch = IF next = "SEND_END" THEN MATCH_OFF
                                ELSE time - BIT_PULSE_TIME,
                   !.timeMatch = time]

\* a SEND_BIT that programs a pulse for the wait after the last bit too
caseSEND_BIT_endArmed(s) ==
    LET r == sendOnes(s, BIT_TIME)
        s1 == [r.s EXCEPT !.bitMask = @ * 2]
        endOfByte == s1.bitMask > 512
        time == IF endOfByte THEN r.time + BIT_TIME * 3 ELSE r.time
        next == IF endOfByte
                THEN IF s1.nextByteIndex < s1.sendTelegramLen /\ s1.sendAck = 0
                     THEN "SEND_BIT_0" ELSE "SEND_END"
                ELSE IF r.time <= BIT_TIME THEN "SEND_BIT" ELSE "SEND_BIT_WAIT"
    IN  [s1 EXCEPT !.state = next,
                   !.capInt = (next = "SEND_BIT_WAIT"),
                   !.pwmMatch = time - BIT_PULSE_TIME,
                   !.timeMatch = time]

\* case SEND_BIT
caseSEND_BIT(s) ==
    LET r == sendOnes(s, BIT_TIME)
        s1 == [r.s EXCEPT !.bitMask = @ * 2]
        endOfByte == s1.bitMask > 512
        time == IF endOfByte THEN r.time + BIT_TIME * 3 ELSE r.time
        next == IF endOfByte
                THEN IF s1.nextByteIndex < s1.sendTelegramLen /\ s1.sendAck = 0
                     THEN "SEND_BIT_0" ELSE "SEND_END"
                ELSE IF r.time <= BIT_TIME THEN "SEND_BIT" ELSE "SEND_BIT_WAIT"
    IN  [s1 EXCEPT !.state = next,
                   !.capInt = (next = "SEND_BIT_WAIT"),
                   !.pwmMatch = IF next = "SEND_END" THEN MATCH_OFF
                                ELSE time - BIT_PULSE_TIME,
                   !.timeMatch = time]

\* for (bitMask = 1; bitMask < 0x100; bitMask <<= 1)
\*     if (currentByte & bitMask) currentByte ^= 0x100;
parityLoop[byte \in Nat, mask \in Nat] ==
    IF mask >= 256 THEN byte
    ELSE parityLoop[IF Test(byte, mask) THEN Xor(byte, 256) ELSE byte, mask * 2]

\* a parity bit that makes the number of ones odd
withParity_odd(byte) == Xor(parityLoop[byte, 1], 256)

\* the parity bit of SEND_BIT_0 put into currentByte
withParity(byte) == parityLoop[byte, 1]

\* case SEND_BIT_0, which falls through into SEND_BIT.  The read through a
\* null sendCurTelegram is recorded in fault and may yield any byte.
caseSEND_BIT_0(s, nullByte) ==
    LET cur == s.sendCurTelegram
        s1 == IF s.sendAck # 0
              THEN [s EXCEPT !.currentByte = s.sendAck]
              ELSE [s EXCEPT !.currentByte =
                                IF cur = 0 THEN nullByte
                                ELSE At(s.buf[cur], s.nextByteIndex),
                             !.fault = @ \/ cur = 0,
                             !.nextByteIndex = @ + 1]
        s2 == [s1 EXCEPT !.currentByte = withParity(@), !.bitMask = 1]
    IN  caseSEND_BIT(s2)

\* a SEND_START_BIT that surrenders with the start pulse still armed
caseSEND_START_BIT_armed(s, in, nullByte) ==
    IF in.cap
    THEN IF in.capVal < s.pwmMatch - COLLISION_MARGIN
         THEN caseRECV_START([s EXCEPT !.state = "RECV_START"], in)
         ELSE [s EXCEPT !.state = "SEND_BIT_0"]
    ELSE caseSEND_BIT_0(s, nullByte)

\* case SEND_START_BIT, which falls through into SEND_BIT_0
caseSEND_START_BIT(s, in, nullByte) ==
    IF in.cap
    THEN IF in.capVal < s.pwmMatch - COLLISION_MARGIN
         THEN caseRECV_START([s EXCEPT !.pwmMatch = MATCH_OFF,
                                       !.state = "RECV_START"], in)
         ELSE [s EXCEPT !.state = "SEND_BIT_0"]
    ELSE caseSEND_BIT_0(s, nullByte)

\* a SEND_BIT_WAIT that becomes receiver without flagging the collision
caseSEND_BIT_WAIT_noFlag(s, in) ==
    IF in.capVal < s.pwmMatch - BIT_WAIT_TIME
    THEN [s EXCEPT !.pwmMatch = MATCH_OFF, !.state = "RECV_BYTE"]
    ELSE [s EXCEPT !.state = "SEND_BIT"]

\* case SEND_BIT_WAIT
caseSEND_BIT_WAIT(s, in) ==
    IF in.capVal < s.pwmMatch - BIT_WAIT_TIME
    THEN [s EXCEPT !.pwmMatch = MATCH_OFF, !.state = "RECV_BYTE",
                   !.collision = TRUE]
    ELSE [s EXCEPT !.state = "SEND_BIT"]

\* a SEND_END that counts the acknowledgement as a try and keeps sendAck
caseSEND_END_keepAck(s) ==
    LET s1 == [s EXCEPT !.timeMatch = SEND_WAIT_TIME, !.capInt = TRUE]
        s2 == [s1 EXCEPT !.sendTries = @ + 1]
    IN  [s2 EXCEPT !.state = "SEND_WAIT"]

\* case SEND_END
caseSEND_END(s) ==
    LET s1 == [s EXCEPT !.timeMatch = SEND_WAIT_TIME, !.capInt = TRUE]
        s2 == IF s1.sendAck # 0 THEN [s1 EXCEPT !.sendAck = 0]
              ELSE [s1 EXCEPT !.sendTries = @ + 1]
    IN  [s2 EXCEPT !.state = "SEND_WAIT"]

\* the switch
timerInterruptHandler(s, in, nullByte) ==
    CASE s.state = "IDLE" -> caseIDLE(s, in)
      [] s.state = "RECV_START" -> caseRECV_START(s, in)
      [] s.state = "RECV_BYTE" -> caseRECV_BYTE(s, in)
      [] s.state = "SEND_INIT" -> caseSEND_INIT(s, in)
      [] s.state = "SEND_START_BIT" -> caseSEND_START_BIT(s, in, nullByte)
      [] s.state = "SEND_BIT_0" -> caseSEND_BIT_0(s, nullByte)
      [] s.state = "SEND_BIT" -> caseSEND_BIT(s)
      [] s.state = "SEND_BIT_WAIT" -> caseSEND_BIT_WAIT(s, in)
      [] s.state = "SEND_END" -> caseSEND_END(s)
      [] s.state = "SEND_WAIT" -> caseSEND_WAIT(s, in)
      [] OTHER -> idleState(s)

---------------------------------------------------------------------------
(* Bus::prepareTelegram, on a buffer of at least length + 1 octets *)

\* for (i = 0; i < length; ++i) checksum ^= telegram[i];
xorLoop[tel \in Seq(Nat), i \in Nat, length \in Nat, sum \in Nat] ==
    IF i >= length THEN sum
    ELSE xorLoop[tel, i + 1, length, Byte(Xor(sum, At(tel, i)))]

xorOctets(tel, i, length, sum) == xorLoop[tel, i, length, sum]

\* a prepareTelegram whose checksum starts at 0
prepareTelegram_zeroSeed(tel, length, addr) ==
    LET t1 == Put(tel, 1, Byte(addr \div 256))
        t2 == Put(t1, 2, Byte(addr))
    IN  Put(t2, length, xorOctets(t2, 0, length, 0))

prepareTelegram(tel, length, addr) ==
    LET t1 == Put(tel, 1, Byte(addr \div 256))
        t2 == Put(t1, 2, Byte(addr))
    IN  Put(t2, length, xorOctets(t2, 0, length, 255))

---------------------------------------------------------------------------
(* The foreign transmitter.  A frame is a sequence of 9 bit words (8 data  *)
(* bits and the parity bit); a word is sent as a start edge (cell 0) and   *)
(* one falling edge in every cell 1..9 whose bit is 0.                     *)

\* a byte as RECV_BYTE takes it for good: the ninth bit makes the ones even
Word(b) == b + 256 * (Ones(b, 8) % 2)
BadWord(b) == b + 256 * ((Ones(b, 8) + 1) % 2)

\* the cells from `from' on in which word w has a falling edge
EdgeCells(w, from) ==
    {k \in from..9 : k = 0 \/ ~Test(w, 2 ^ (k - 1))}

Min(S) == CHOOSE x \in S : \A y \in S : x <= y

NoPeer == [words |-> <<>>, cell |-> 0, sync |-> FALSE, slack |-> 0]

\* the peer after the edge in cell k of its current word
peerAfter(p, k, sync) ==
    IF EdgeCells(Head(p.words), k + 1) = {}
    THEN [words |-> Tail(p.words), cell |-> 0, sync |-> sync,
          slack |-> IF Tail(p.words) = <<>> THEN 0 ELSE PeerSlack]
    ELSE [words |-> p.words, cell |-> k + 1, sync |-> sync, slack |-> PeerSlack]

\* The capture values a foreign edge can latch when the receiver is not
\* synchronised to it: early or late in the current timer period.
EARLY == 50
Late == timeMatch - 1
ForeignTimes ==
    IF state \in {"SEND_START_BIT", "SEND_BIT_WAIT", "SEND_WAIT", "RECV_BYTE"}
    THEN {EARLY, Late}
    ELSE {0}
AnyTime == 0..MATCH_OFF

\* The peer's next edge comes before the next event of the timer: the
\* receiver is synchronised to the peer's word and the timeout is the end of
\* the byte or of the frame, or PeerSlack timer events have passed since the
\* peer's last edge.
PeerMid ==
    /\ peer.words # <<>>
    /\ \/ peer.sync /\ state = "RECV_BYTE" /\ peer.cell > 0
       \/ peer.sync /\ state = "RECV_START"
       \/ peer.slack = 0

\* one more timer event has passed since the peer's last edge
peerWaits ==
    IF peer.words # <<>> /\ ~peer.sync /\ peer.slack > 0
    THEN [peer EXCEPT !.slack = @ - 1] ELSE peer

---------------------------------------------------------------------------
(* History of one interrupt, read off the handler's input and result *)

Bufs == 1..NumBufs

\* handleTelegram has not run since the last reception began
NoRx ==
    [ran |-> FALSE, words |-> <<>>, collision |-> FALSE, n |-> 0,
     ok |-> FALSE, pub |-> FALSE, ack |-> 0]

\* The counters of a buffer are kept while sendTelegram's caller waits for
\* its release, and the logs while the handler sends or receives.
Released(post) == {b \in held : At(post.buf[b], 0) = 0}

Count(f, post, b, hit) ==
    IF b \in Released(post) THEN 0
    ELSE IF hit /\ f[b] < MaxCount THEN f[b] + 1
    ELSE f[b]

History(pre, post, in, foreign) ==
    /\ attempts' = [b \in Bufs |-> Count(attempts, post, b,
                       post.state = "SEND_START_BIT" /\ post.sendAck = 0
                       /\ post.sendCurTelegram = b)]
    /\ completed' = [b \in Bufs |-> Count(completed, post, b,
                       pre.state = "SEND_END" /\ pre.sendAck = 0
                       /\ pre.sendCurTelegram = b)]
    /\ aborted' = [b \in Bufs |-> Count(aborted, post, b,
                       pre.state \in {"SEND_START_BIT", "SEND_BIT_WAIT"}
                       /\ post.state = "RECV_BYTE" /\ pre.sendAck = 0
                       /\ pre.sendCurTelegram = b)]
    /\ txLog' = IF post.state \notin {"SEND_BIT_0", "SEND_BIT", "SEND_BIT_WAIT",
                                      "SEND_END", "SEND_WAIT"}
                THEN <<>>
                ELSE IF pre.state = "SEND_BIT_0"
                        \/ (pre.state = "SEND_START_BIT" /\ ~in.cap)
                THEN Append(txLog, post.currentByte)
                ELSE txLog
    /\ rxLog' = IF post.state \notin {"RECV_BYTE", "RECV_START"}
                   \/ pre.state \notin {"RECV_BYTE", "RECV_START"}
                THEN <<>>
                ELSE IF pre.state = "RECV_BYTE" /\ in.tmo
                THEN Append(rxLog, post.currentByte)
                ELSE rxLog
    /\ held' = held \ Released(post)
    /\ quiet' = IF foreign THEN FALSE
                ELSE IF pre.state = "RECV_START" /\ ~in.cap THEN TRUE
                ELSE quiet
    /\ rxEnd' = IF pre.state = "RECV_START" /\ ~in.cap
                THEN [ran |-> TRUE, words |-> rxLog,
                      collision |-> pre.collision, n |-> pre.nextByteIndex,
                      ok |-> pre.valid # 0 /\ pre.checksum = 0,
                      pub |-> post.pub, ack |-> post.sendAck]
                ELSE IF pre.state = "SEND_WAIT"
                        \/ post.state \in {"IDLE", "RECV_BYTE"}
                THEN NoRx
                ELSE rxEnd
    /\ orig' = orig

\* One run of the interrupt handler
Interrupt(in, foreign) ==
    \E nullByte \in (IF sendCurTelegram = 0 /\ sendAck = 0
                        /\ state \in {"SEND_BIT_0", "SEND_START_BIT"}
                     THEN 0..255 ELSE {0}) :
      \E pre \in {Cur} :
        \E post \in {timerInterruptHandler(pre, in, nullByte)} :
          Commit(post) /\ History(pre, post, in, foreign)

---------------------------------------------------------------------------
(* The timer's events *)

\* The timeout match fires.  In SEND_BIT_WAIT the capture of the armed pulse
\* (or of a foreign edge before it) always comes first.
TimerMatch ==
    /\ timeInt
    /\ state # "SEND_BIT_WAIT"
    /\ ~PeerMid
    /\ Interrupt(Event(FALSE, TRUE, 0), FALSE)
    /\ peer' = peerWaits
    /\ UNCHANGED <<cfgVars, loopVars, fgVars, peerLeft>>

\* The falling edge of the pulse the PWM match emits is captured
OwnEdge ==
    /\ capInt
    /\ pwmMatch # MATCH_OFF
    /\ state \in {"SEND_START_BIT", "SEND_BIT_WAIT"}
    /\ ~PeerMid
    /\ Interrupt(Event(TRUE, FALSE, pwmMatch), FALSE)
    /\ peer' = peerWaits
    /\ UNCHANGED <<cfgVars, loopVars, fgVars, peerLeft>>

\* The peer p emits the next falling edge of its current word
ForeignEdge(p, T) ==
    LET k == Min(EdgeCells(Head(p.words), p.cell)) IN
    /\ ~(p.sync /\ k = 0 /\ state = "RECV_BYTE")
    /\ IF capInt
       THEN \E capVal \in (IF p.sync /\ state = "RECV_BYTE"
                           THEN {k * BIT_TIME} ELSE T) :
              /\ Interrupt(Event(TRUE, FALSE, capVal), TRUE)
              /\ peer' = peerAfter(p, k,
                           IF k = 0
                           THEN state' = "RECV_BYTE"
                                /\ state \notin {"RECV_BYTE", "SEND_BIT_WAIT"}
                           ELSE p.sync)
       ELSE /\ UNCHANGED <<busVars, histVars>>
            /\ peer' = peerAfter(p, k, IF k = 0 THEN FALSE ELSE p.sync)
    /\ UNCHANGED <<cfgVars, loopVars, fgVars>>

\* A peer starts a frame of the set F in a state where `where' holds; its
\* start edge latches a capture value of T
PeerBegin(F, where, T) ==
    /\ peer.words = <<>>
    /\ peerLeft > 0
    /\ where
    /\ capInt
    /\ \E f \in F : ForeignEdge([NoPeer EXCEPT !.words = f],
                               ForeignTimes \cap T)
    /\ peerLeft' = peerLeft - 1

\* The peer goes on with its frame
PeerEdge ==
    /\ peer.words # <<>>
    /\ ForeignEdge(peer, ForeignTimes)
    /\ UNCHANGED peerLeft

---------------------------------------------------------------------------
(* Bus::sendTelegram in the foreground, one action per step an interrupt *)
(* can separate from the next                                            *)

\* The call: prepareTelegram(telegram, length) on a buffer the caller owns
FgCall(b, tpl) ==
    /\ pcFg = "idle"
    /\ callsLeft > 0
    /\ b \notin held
    /\ LET t == prepareTelegram(tpl, telegramSize(tpl), ownAddr)
       IN  /\ buf' = [buf EXCEPT ![b] = t]
           /\ orig' = [orig EXCEPT ![b] = t]
    /\ attempts' = [attempts EXCEPT ![b] = 0]
    /\ completed' = [completed EXCEPT ![b] = 0]
    /\ aborted' = [aborted EXCEPT ![b] = 0]
    /\ fgBuf' = b
    /\ fgLen' = telegramSize(tpl)
    /\ pcFg' = "wait"
    /\ callsLeft' = callsLeft - 1
    /\ fgSeen' = <<sendCurTelegram, sendNextTel>>
    /\ UNCHANGED <<state, sendAck, sendCurTelegram, sendNextTel, collision,
                   nextByteIndex, checksum, valid, currentByte, bitTime,
                   bitMask, parity, telegram, telegramLen, sendTries,
                   sendTelegramLen, pwmMatch, timeMatch, timeInt, capInt,
                   fault, cfgVars, loopVars, peerVars, held, txLog, rxLog, quiet, rxEnd>>

\* while (sendNextTel) { }
FgWait ==
    /\ pcFg = "wait"
    /\ sendNextTel = 0
    /\ pcFg' = "readCur"
    /\ UNCHANGED <<busVars, cfgVars, loopVars, fgBuf, fgLen, callsLeft, fgSeen, peerVars, histVars>>

\* if (!sendCurTelegram) ... else if (!sendNextTel) ... else fatalError()
FgReadCur ==
    /\ pcFg = "readCur"
    /\ pcFg' = IF sendCurTelegram = 0 THEN "writeCur" ELSE "readNext"
    /\ UNCHANGED <<busVars, cfgVars, loopVars, fgBuf, fgLen, callsLeft, fgSeen, peerVars, histVars>>

FgReadNext ==
    /\ pcFg = "readNext"
    /\ pcFg' = IF sendNextTel = 0 THEN "writeNext" ELSE "fatal"
    /\ UNCHANGED <<busVars, cfgVars, loopVars, fgBuf, fgLen, callsLeft, fgSeen, peerVars, histVars>>

\* sendCurTelegram = telegram
FgWriteCur ==
    /\ pcFg = "writeCur"
    /\ sendCurTelegram' = fgBuf
    /\ held' = held \cup {fgBuf}
    /\ pcFg' = "kick"
    /\ UNCHANGED <<state, sendAck, sendNextTel, collision,
                   nextByteIndex, checksum, valid, currentByte, bitTime,
                   bitMask, parity, telegram, telegramLen, sendTries,
                   sendTelegramLen, pwmMatch, timeMatch, timeInt, capInt,
                   buf, fault, cfgVars, loopVars, fgBuf, fgLen, callsLeft, fgSeen, peerVars,
                   orig, attempts, completed, aborted, txLog, rxLog, quiet, rxEnd>>

\* sendNextTel = telegram
FgWriteNext ==
    /\ pcFg = "writeNext"
    /\ sendNextTel' = fgBuf
    /\ held' = held \cup {fgBuf}
    /\ pcFg' = "kick"
    /\ UNCHANGED <<state, sendAck, sendCurTelegram, collision,
                   nextByteIndex, checksum, valid, currentByte, bitTime,
                   bitMask, parity, telegram, telegramLen, sendTries,
                   sendTelegramLen, pwmMatch, timeMatch, timeInt, capInt,
                   buf, fault, cfgVars, loopVars, fgBuf, fgLen, callsLeft, fgSeen, peerVars,
                   orig, attempts, completed, aborted, txLog, rxLog, quiet, rxEnd>>

\* noInterrupts(); if (state == IDLE) { ... } interrupts(); and the return
FgKick ==
    /\ pcFg = "kick"
    /\ IF state = "IDLE"
       THEN /\ sendTries' = 0
            /\ state' = "SEND_INIT"
            /\ timeMatch' = 1
            /\ timeInt' = TRUE
       ELSE UNCHANGED <<sendTries, state, timeMatch, timeInt>>
    /\ pcFg' = "idle"
    /\ UNCHANGED <<sendAck, sendCurTelegram, sendNextTel, collision,
                   nextByteIndex, checksum, valid, currentByte, bitTime,
                   bitMask, parity, telegram, telegramLen,
                   sendTelegramLen, pwmMatch, capInt,
                   buf, fault, cfgVars, loopVars, fgBuf, fgLen, callsLeft, fgSeen, peerVars, histVars>>

---------------------------------------------------------------------------
(* The state after the constructor and Bus::begin.  The object `bus' has  *)
(* static storage, so the fields begin() does not set start as zero.      *)

OWN_ADDR == 65535

\* telegrams the application sends: 7 octets and the checksum's place
TplA == <<188, 0, 0, 255, 255, 112, 255, 0>>
TplB == <<176, 0, 0, 0, 1, 240, 255, 0>>
Tpl(b) == IF b % 2 = 1 THEN TplA ELSE TplB

InitFields ==
    /\ state = "IDLE"
    /\ sendAck = 0
    /\ sendCurTelegram = 0
    /\ sendNextTel = 0
    /\ collision = FALSE
    /\ nextByteIndex = 0
    /\ checksum = 0
    /\ valid = 0
    /\ currentByte = 0
    /\ bitTime = 0
    /\ bitMask = 0
    /\ parity = 0
    /\ telegram = [i \in 0..(SB_TELEGRAM_SIZE - 1) |-> 0]
    /\ telegramLen = 0
    /\ sendTries = 0
    /\ sendTelegramLen = 0
    /\ pwmMatch = MATCH_OFF
    /\ timeMatch = MATCH_IDLE
    /\ timeInt = FALSE
    /\ capInt = TRUE
    /\ fault = FALSE

\* the callers have not filled their buffers yet
InitBus == InitFields /\ buf = [b \in Bufs |-> [i \in 1..8 |-> 0]]

InitHist ==
    /\ orig = [b \in Bufs |-> [i \in 1..8 |-> 0]]
    /\ held = {}
    /\ attempts = [b \in Bufs |-> 0]
    /\ completed = [b \in Bufs |-> 0]
    /\ aborted = [b \in Bufs |-> 0]
    /\ txLog = <<>>
    /\ rxLog = <<>>
    /\ quiet = TRUE
    /\ rxEnd = NoRx

InitFg(n) ==
    /\ pcFg = "idle"
    /\ fgBuf = 0
    /\ fgLen = 0
    /\ callsLeft = n
    /\ fgSeen = <<0, 0>>

\* no second Bus object listens
NoBus == [state |-> "OFF"]

NoListener ==
    /\ rx = NoBus
    /\ txClock = 0
    /\ rxClock = 0

InitPeer(n) ==
    /\ peer = NoPeer
    /\ peerLeft = n
    /\ NoListener

InitCfgOf(addr, tl) ==
    /\ ownAddr = addr
    /\ addrTab = {1}
    /\ statusTL = tl

InitCfg == InitCfgOf(OWN_ADDR, TRUE)

---------------------------------------------------------------------------
(* The send queue: the foreground submits telegrams while the interrupt   *)
(* handler sends them and peers acknowledge them                          *)

AckFrames == {<<Word(SB_BUS_ACK)>>}

\* the caller takes its first free buffer
FreeBuf == Min(Bufs \ held)

Foreground ==
    \/ (Bufs \ held # {} /\ FgCall(FreeBuf, Tpl(FreeBuf)))
    \/ FgWait
    \/ FgReadCur
    \/ FgReadNext
    \/ FgWriteCur
    \/ FgWriteNext
    \/ FgKick

Init == InitBus /\ InitHist /\ InitFg(MaxCalls) /\ InitPeer(MaxPeerFrames) /\ InitCfg

Next ==
    \/ TimerMatch
    \/ OwnEdge
    \/ PeerBegin(AckFrames, state = "SEND_WAIT", {Late})
    \/ PeerEdge
    \/ Foreground

Spec == Init /\ [][Next]_vars

---------------------------------------------------------------------------
(* Claims about the send queue *)

\* C1: in every reachable state, whatever the interleaving of the steps of
\* sendTelegram with the interrupt handler, sendNextTel # null implies
\* sendCurTelegram # null.
C1_QueueInvariant == sendNextTel # 0 => sendCurTelegram # 0

Pending ==
    (IF sendCurTelegram # 0 THEN 1 ELSE 0) + (IF sendNextTel # 0 THEN 1 ELSE 0)

InsideSend == pcFg \in {"readCur", "readNext", "writeCur", "writeNext", "kick"}

\* sendTelegram never overwrites a send slot that is not null
C10_NoOverwrite ==
    /\ pcFg = "writeCur" => sendCurTelegram = 0
    /\ pcFg = "writeNext" => sendNextTel = 0

\* with at most one telegram pending the wait loop is left at once
C10_NoWait == pcFg = "wait" /\ Pending <= 1 => sendNextTel = 0

\* a call made with both slots full gets past the wait loop only after the
\* handler has released the oldest telegram (written its octet 0 to 0)
C10_WaitsForRelease ==
    InsideSend /\ fgSeen[1] # 0 /\ fgSeen[2] # 0 => At(buf[fgSeen[1]], 0) = 0

\* fatalError() is not reached
C10_NoFatal == pcFg # "fatal"

\* C10: with a single foreground caller sendTelegram never overwrites a send
\* slot that is not null, does not wait when at most one telegram is pending,
\* does not return from a call made with two telegrams pending before the
\* oldest is released, and never reaches fatalError().
C10_Backpressure ==
    C10_NoOverwrite /\ C10_NoWait /\ C10_WaitsForRelease /\ C10_NoFatal

---------------------------------------------------------------------------
(* Retries: the handler sends the queued telegrams while peers collide    *)
(* with them, acknowledge them or stay silent                             *)

CollideFrames == {<<Word(255)>>}

SendStates ==
    {"SEND_START_BIT", "SEND_BIT_0", "SEND_BIT", "SEND_BIT_WAIT", "SEND_END"}

\* an attempt to send telegram b is under way
Sending(b) == sendCurTelegram = b /\ sendAck = 0 /\ state \in SendStates

\* Peers that start together with the Bus differ from it in the control
\* octet: they are seen before the start bit or in a 1 cell of octet 0.
Arbitration ==
    \/ state = "SEND_START_BIT"
    \/ state = "SEND_BIT_WAIT" /\ nextByteIndex = 1

InitRetry ==
    InitBus /\ InitHist /\ InitFg(RetryCalls) /\ InitPeer(MaxCollisions) /\ InitCfg

NextRetry ==
    \/ TimerMatch
    \/ OwnEdge
    \/ PeerBegin(CollideFrames, Arbitration, {EARLY, Late})
    \/ PeerBegin(AckFrames, state = "SEND_WAIT", {Late})
    \/ PeerEdge
    \/ Foreground

SpecRetry == InitRetry /\ [][NextRetry]_vars

\* C2: a telegram is given up after three attempts that ran to SEND_END
\* without an acknowledgement: sendTries never exceeds 4, no attempt starts
\* once it exceeds 3, and no telegram completes more than three attempts.
\* Attempts cut short by a collision are not counted towards the limit.
C2_RetryBound ==
    /\ sendTries <= SEND_TRIES_LIMIT + 1
    /\ \A b \in Bufs : completed[b] <= SEND_TRIES_LIMIT
    /\ state = "SEND_START_BIT" /\ sendAck = 0 => sendTries <= SEND_TRIES_LIMIT

\* the third full attempt of a telegram that also lost arbitration has ended
C2_ThirdAttemptDone ==
    \E b \in Bufs :
        /\ sendCurTelegram = b
        /\ sendTries = SEND_TRIES_LIMIT + 1
        /\ completed[b] = SEND_TRIES_LIMIT
        /\ aborted[b] >= 1

\* C2 as stated: at most 4 attempts of a telegram are started, attempts cut
\* short by a collision included
C2_AtMostFourAttempts == \A b \in Bufs : attempts[b] <= 4

\* the telegram as the first repeat marks it
repeated(tel) ==
    LET len == telegramSize(tel) + 1
    IN  Put(Put(tel, 0, ClearBit(At(tel, 0), SB_TEL_REPEAT_FLAG)),
            len - 1, Xor(At(tel, len - 1), SB_TEL_REPEAT_FLAG))

\* C3: while a telegram is being sent its octets are those the caller queued
\* as long as no attempt of it has run to SEND_END; after that, whatever the
\* number of collisions and failed attempts, they are the queued octets with
\* bit 5 of octet 0 cleared and the checksum octet XORed with 0x20.
C3_RepeatFlag ==
    \A b \in Bufs :
        Sending(b) =>
            buf[b] = (IF completed[b] = 0 THEN orig[b] ELSE repeated(orig[b]))

\* a repeated telegram that also lost arbitration is being sent again
C3_RepeatedAndCollided ==
    \E b \in Bufs :
        /\ Sending(b)
        /\ completed[b] = 1
        /\ aborted[b] >= 1
        /\ attempts[b] >= 3
        /\ buf[b] # orig[b]

\* C3 as stated: the attempt after exactly one collision has bit 5 of
\* octet 0 cleared
C3_FlagAfterCollision ==
    \A b \in Bufs :
        Sending(b) /\ aborted[b] = 1 /\ attempts[b] = 2 =>
            ~Test(At(buf[b], 0), SB_TEL_REPEAT_FLAG)

---------------------------------------------------------------------------
(* prepareTelegram on the buffers and lengths a caller can pass *)

\* step between the octets of a buffer's contents
PrepSteps == {0, 1, 85, 255}

\* the caller's buffers: PrepSize octets x, x + y, x + 2y, ...
PrepTpls ==
    {[i \in 1..PrepSize |-> (x + (i - 1) * y) % 256] :
        x \in 0..255, y \in PrepSteps}

\* the lengths of a telegram that fits the buffer with its checksum
PrepLens == 7..(PrepSize - 1)

PrepAddrs == {0, 255, 4353, 65280, OWN_ADDR}

\* sendTelegram(telegram, length) up to the return of prepareTelegram
PrepCall(b, len) ==
    /\ pcFg = "idle"
    /\ callsLeft > 0
    /\ b \notin held
    /\ buf' = [buf EXCEPT ![b] = prepareTelegram(buf[b], len, ownAddr)]
    /\ fgBuf' = b
    /\ fgLen' = len
    /\ pcFg' = "wait"
    /\ callsLeft' = callsLeft - 1
    /\ fgSeen' = <<sendCurTelegram, sendNextTel>>
    /\ UNCHANGED <<state, sendAck, sendCurTelegram, sendNextTel, collision,
                   nextByteIndex, checksum, valid, currentByte, bitTime,
                   bitMask, parity, telegram, telegramLen, sendTries,
                   sendTelegramLen, pwmMatch, timeMatch, timeInt, capInt,
                   fault, cfgVars, loopVars, peerVars, histVars>>

InitPrep ==
    /\ InitFields
    /\ \E tpl \in PrepTpls :
         buf = [b \in Bufs |-> IF b = 1 THEN tpl ELSE [i \in 1..PrepSize |-> 0]]
    /\ InitHist /\ InitFg(1) /\ InitPeer(0)
    /\ \E addr \in PrepAddrs : InitCfgOf(addr, TRUE)

NextPrep == \E len \in PrepLens : PrepCall(1, len)

SpecPrep == InitPrep /\ [][NextPrep]_vars

\* the XOR of octets 0..n-1 of t
XorFoldN[t \in Seq(Nat), n \in Nat] ==
    IF n = 0 THEN 0 ELSE Xor(XorFoldN[t, n - 1], At(t, n - 1))

XorFold(t, n) == XorFoldN[t, n]

\* prepareTelegram has returned in the call under way
Prepared == pcFg = "wait" /\ fgBuf # 0

\* C4: after prepareTelegram(buffer, L) the XOR of octets buffer[0..L] is
\* 0xff (the checksum is the inverted XOR of octets 0..L-1), and octets 1..2
\* hold the own address, high octet first.
C4_ChecksumLaw ==
    Prepared =>
        /\ XorFold(buf[fgBuf], fgLen + 1) = 255
        /\ At(buf[fgBuf], 1) = ownAddr \div 256
        /\ At(buf[fgBuf], 2) = ownAddr % 256

\* a telegram of more than the shortest length was prepared for an address
\* with two different octets
C4_PreparedLong ==
    /\ Prepared
    /\ fgLen > 7
    /\ ownAddr = 4353
    /\ At(buf[fgBuf], 0) = 188
    /\ At(buf[fgBuf], fgLen) # 0

\* C4 as stated: the XOR of octets buffer[0..L] is 0
C4_XorIsZero ==
    Prepared =>
        /\ XorFold(buf[fgBuf], fgLen + 1) = 0
        /\ At(buf[fgBuf], 1) = ownAddr \div 256
        /\ At(buf[fgBuf], 2) = ownAddr % 256

---------------------------------------------------------------------------
(* Reception: peers send frames to the idle Bus and into the start of its *)
(* own transmissions                                                      *)

\* a peer's telegram to dst: 7 octets and the checksum
PeerTel(dst, group) ==
    LET t == <<188, 255, 254, dst \div 256, dst % 256,
               IF group THEN 255 ELSE 127, 255>>
    IN  Append(t, xorOctets(t, 0, 7, 255))

\* the telegram with its checksum octet inverted
BadSum(t) == [t EXCEPT ![Len(t)] = Xor(@, 255)]

\* the words of a telegram on the line
Words(t) == [i \in 1..Len(t) |-> Word(t[i])]

ValidTels == {PeerTel(d, g) : d \in {0, 1, 2, OWN_ADDR}, g \in BOOLEAN}

RecvFrames ==
    {Words(t) : t \in ValidTels}
    \cup {Words(BadSum(PeerTel(1, TRUE))),
          [Words(PeerTel(1, TRUE)) EXCEPT ![2] = BadWord(255)],
          SubSeq(Words(PeerTel(1, TRUE)), 1, 3),
          <<Word(255)>>,
          <<Word(SB_BUS_ACK)>>}

\* frames of peers that start just before the Bus does
ArbFrames == {Words(PeerTel(1, TRUE)), Words(BadSum(PeerTel(1, TRUE)))}

InitRecv ==
    /\ InitBus /\ InitHist /\ InitFg(1) /\ InitPeer(MaxRecvFrames)
    /\ \E tl \in BOOLEAN : InitCfgOf(OWN_ADDR, tl)

NextRecv ==
    \/ TimerMatch
    \/ OwnEdge
    \/ PeerBegin(RecvFrames, state = "IDLE", AnyTime)
    \/ PeerBegin(ArbFrames, state = "SEND_START_BIT", {EARLY})
    \/ PeerEdge
    \/ FgCall(1, Tpl(1))
    \/ FgWait
    \/ FgReadCur
    \/ FgWriteCur
    \/ FgKick

SpecRecv == InitRecv /\ [][NextRecv]_vars

\* handleTelegram has just run
Received == rxEnd.ran /\ state = "SEND_INIT"

\* ... on a collision free frame of at least 8 bytes that it was told is valid
GoodFrame == Received /\ ~rxEnd.collision /\ rxEnd.n >= 8 /\ rxEnd.ok

\* the destination of the received telegram is the own individual address,
\* the group address 0 or a group address of the address table
Owned ==
    LET dst == telegram[3] * 256 + telegram[4]
    IN  IF Test(telegram[5], 128)
        THEN dst = 0 \/ dst \in addrTab
        ELSE dst = ownAddr

\* C6: on a valid collision free frame of at least 8 bytes handleTelegram,
\* with BCU_STATUS_TL set (promiscuous mode off), arms the ACK and publishes
\* the telegram if and only if the destination is owned; with BCU_STATUS_TL
\* clear (promiscuous mode on) it publishes every such telegram and arms no
\* ACK, whatever the destination.
C6_AckPolicy ==
    GoodFrame =>
        IF statusTL
        THEN /\ sendAck = SB_BUS_ACK <=> Owned
             /\ sendAck \in {0, SB_BUS_ACK}
             /\ rxEnd.pub <=> Owned
        ELSE /\ rxEnd.pub
             /\ telegramLen = rxEnd.n
             /\ sendAck = 0

\* a telegram for the own address was received in promiscuous mode
C6_PromiscuousOwned ==
    GoodFrame /\ ~statusTL /\ Owned /\ telegram[5] < 128 /\ telegramLen = 8

\* C6 as stated: the ACK is armed iff the destination is owned, in both
\* modes, and promiscuous mode publishes the telegram in addition
C6_SamePolicy ==
    GoodFrame =>
        /\ sendAck = SB_BUS_ACK <=> Owned
        /\ ~statusTL => rxEnd.pub /\ telegramLen = rxEnd.n

\* the 9 bits of word w hold an even number of ones
GoodParity(w) == Ones(w, 9) % 2 = 0

\* the checksum of the words, from the initial accumulator 0xff
ChecksumN[ws \in Seq(Nat), n \in Nat] ==
    IF n = 0 THEN 255 ELSE Xor(ChecksumN[ws, n - 1], Byte(ws[n]))

Checksum(ws) == ChecksumN[ws, Len(ws)]

\* the words are a telegram: 8 bytes or more, parities and checksum good
ValidFrame(ws) ==
    /\ Len(ws) >= 8
    /\ \A i \in 1..Len(ws) : GoodParity(ws[i])
    /\ Checksum(ws) = 0

\* C7: when handleTelegram stores a length to telegramLen no collision is
\* flagged, the length is nextByteIndex >= 8, it is the number of bytes
\* received, every received byte had good parity, the checksum over the
\* received bytes is 0 and telegram[] holds these bytes.
C7_Publication ==
    Received /\ rxEnd.pub =>
        /\ ~rxEnd.collision
        /\ telegramLen = nextByteIndex
        /\ nextByteIndex = Len(rxEnd.words)
        /\ ValidFrame(rxEnd.words)
        /\ \A i \in 1..Len(rxEnd.words) :
               telegram[i - 1] = Byte(rxEnd.words[i])

\* the frame whose reception ended is neither one byte nor a telegram
Garbage ==
    /\ rxEnd.ran
    /\ ~rxEnd.collision
    /\ Len(rxEnd.words) # 1
    /\ ~ValidFrame(rxEnd.words)

\* C8: when a reception without collision ends on a frame that is neither
\* one byte nor a valid telegram, handleTelegram clears telegramLen and arms
\* the NACK, and when the line stays quiet the machine is back in SEND_WAIT
\* after it sent the one byte 0x0C.
C8_NackOnGarbage ==
    /\ Received /\ Garbage => telegramLen = 0 /\ sendAck = SB_BUS_NACK
    /\ state = "SEND_WAIT" /\ Garbage /\ quiet => txLog = <<Word(SB_BUS_NACK)>>

---------------------------------------------------------------------------
(* Parity: the Bus sends telegrams with every octet value, and the ACK of *)
(* a telegram it receives                                                 *)

\* the telegrams the application sends: TplA with every value of octet 6
ParityTpls == {Put(TplA, 6, x) : x \in 0..255}

InitParity ==
    InitBus /\ InitHist /\ InitFg(1) /\ InitPeer(1) /\ InitCfg

NextParity ==
    \/ TimerMatch
    \/ OwnEdge
    \/ PeerBegin({Words(PeerTel(OWN_ADDR, FALSE))},
                 state = "IDLE" /\ callsLeft = 0 /\ held = {}, AnyTime)
    \/ PeerEdge
    \/ \E tpl \in ParityTpls : FgCall(1, tpl)
    \/ FgWait
    \/ FgReadCur
    \/ FgWriteCur
    \/ FgKick

SpecParity == InitParity /\ [][NextParity]_vars

\* C5: every byte loaded in SEND_BIT_0, telegram octet or ACK byte, is sent
\* as 9 bits with an even number of ones: bit 8 of currentByte is 1 exactly
\* when the 8 data bits hold an odd number of ones.
C5_EvenParity ==
    \A i \in DOMAIN txLog :
        /\ txLog[i] < 512
        /\ Ones(txLog[i], 9) % 2 = 0
        /\ Test(txLog[i], 256) <=> Ones(Byte(txLog[i]), 8) % 2 = 1

\* a telegram was sent whose octet 6 is 0xab, which has five ones, and whose
\* ninth bit is 1
C5_OddOctetSent ==
    /\ state = "SEND_WAIT"
    /\ Len(txLog) = 8
    /\ txLog[7] = 171 + 256

\* C5 as stated: the 9 transmitted bits hold an odd number of ones
C5_OddParity == \A i \in DOMAIN txLog : Ones(txLog[i], 9) % 2 = 1

---------------------------------------------------------------------------
(* Completion: the send queue when the timer's interrupts are served and  *)
(* the foreground keeps running                                           *)

\* The timer raises every interrupt the handler programmed, the foreground
\* is not stopped, and a peer that began a frame drives it to its end;
\* peers need not begin anything.
Fairness ==
    /\ WF_vars(TimerMatch)
    /\ WF_vars(OwnEdge)
    /\ WF_vars(Foreground)
    /\ WF_vars(PeerEdge)

SpecLive == Init /\ [][Next]_vars /\ Fairness

\* C9: every telegram sendTelegram accepted (stored into a send slot) is
\* eventually released by the handler, which writes its byte 0 to 0,
\* whether or not a peer acknowledges it.
C9_Completion == \A b \in Bufs : (b \in held) ~> (b \notin held)

---------------------------------------------------------------------------
(* Claims about the acknowledgement the Bus sends *)

\* the handler is sending the byte handleTelegram armed in sendAck
SendingAck == sendAck # 0 /\ state \in SendStates

\* while the acknowledgement is sent no octet but sendAck is loaded, and
\* when the line stayed quiet the one byte 0xCC was sent at SEND_WAIT
C11_OneByte ==
    /\ SendingAck =>
          /\ sendTelegramLen = 0
          /\ txLog \in {<<>>, <<Word(sendAck)>>}
          /\ state = "SEND_END" => txLog = <<Word(sendAck)>>
    /\ state = "SEND_WAIT" /\ rxEnd.ran /\ rxEnd.ack = SB_BUS_ACK /\ quiet =>
          txLog = <<Word(SB_BUS_ACK)>> /\ sendAck = 0

\* a step of the handler that sends the acknowledgement leaves sendTries
\* and the two send slots alone, and SEND_END clears sendAck
C11_QueueKept ==
    SendingAck /\ pcFg' = pcFg =>
        /\ sendTries' = sendTries
        /\ sendCurTelegram' = sendCurTelegram
        /\ sendNextTel' = sendNextTel
        /\ state = "SEND_END" => sendAck' = 0 /\ state' = "SEND_WAIT"

\* C11: after handleTelegram armed sendAck = ACK and while the line stays
\* quiet the handler goes from SEND_INIT through the send states to SEND_END
\* and sends exactly the one byte 0xCC, no octet of sendCurTelegram; SEND_END
\* clears sendAck, and sendTries, sendCurTelegram and sendNextTel are left
\* unchanged.
C11_AckEmission == []C11_OneByte /\ [][C11_QueueKept]_vars

\* the acknowledgement was sent while a telegram of the application waits
\* in sendCurTelegram
C11_AckSentTelegramQueued ==
    /\ state = "SEND_WAIT"
    /\ rxEnd.ran /\ rxEnd.ack = SB_BUS_ACK /\ quiet
    /\ txLog = <<Word(SB_BUS_ACK)>>
    /\ sendCurTelegram # 0
    /\ sendTries = 0

---------------------------------------------------------------------------
(* Claims about collisions *)

\* timer values more than 10 us before the programmed start pulse
EarlyTimes ==
    {v \in {0, EARLY, pwmMatch - COLLISION_MARGIN - 1} :
        v >= 0 /\ v < pwmMatch - COLLISION_MARGIN}

\* the handler's result for a capture at time v in the current state
OnCapture(v) == timerInterruptHandler(Cur, Event(TRUE, FALSE, v), 0)

\* C12: in SEND_START_BIT a capture more than 10 us before the programmed
\* PWM match disarms the PWM (0xffff), leaves the send path through
\* RECV_START and takes the edge as the start bit of a byte to receive
\* (RECV_BYTE with fresh byte accumulators and the BYTE_TIME timeout);
\* sendTries, the send slots and the queued telegram are not changed.  A
\* capture at most 10 us before the match goes on sending.
C12_StartBitCollision ==
    state = "SEND_START_BIT" =>
        /\ \A v \in EarlyTimes :
              LET post == OnCapture(v) IN
              /\ post.pwmMatch = MATCH_OFF
              /\ post.state = "RECV_BYTE"
              /\ post.currentByte = 0 /\ post.bitTime = 0
              /\ post.bitMask = 1 /\ post.parity = 1
              /\ post.timeMatch = BYTE_TIME /\ post.timeInt
              /\ post.sendTries = sendTries
              /\ post.sendCurTelegram = sendCurTelegram
              /\ post.sendNextTel = sendNextTel
              /\ post.buf = buf
        /\ pwmMatch >= COLLISION_MARGIN =>
              OnCapture(pwmMatch - COLLISION_MARGIN).state = "SEND_BIT_0"
        /\ pwmMatch # MATCH_OFF /\ pwmMatch > COLLISION_MARGIN

\* the Bus surrendered the start bit of its queued telegram to a peer and
\* receives the peer's first byte
C12_Surrendered ==
    /\ state = "RECV_BYTE"
    /\ ~collision
    /\ pwmMatch = MATCH_OFF
    /\ sendCurTelegram # 0
    /\ aborted[sendCurTelegram] = 1
    /\ sendTries = 0
    /\ buf[sendCurTelegram] = orig[sendCurTelegram]

\* Collisions in a 1 cell: a peer first sends a telegram to the idle Bus,
\* which publishes it; later peers pull the line low while the Bus sends a
\* 1 bit of its own telegram or of its acknowledgement.
IdleFrames == {Words(PeerTel(OWN_ADDR, FALSE))}

CellFrames == {<<Word(255)>>, <<Word(255), Word(127)>>}

InitColl ==
    InitBus /\ InitHist /\ InitFg(1) /\ InitPeer(MaxCollFrames) /\ InitCfg

NextColl ==
    \/ TimerMatch
    \/ OwnEdge
    \/ PeerBegin(IdleFrames,
                 state = "IDLE" /\ peerLeft = MaxCollFrames /\ callsLeft > 0,
                 AnyTime)
    \/ PeerBegin(CellFrames,
                 state = "SEND_BIT_WAIT" /\ peerLeft < MaxCollFrames, {EARLY})
    \/ PeerEdge
    \/ FgCall(1, Tpl(1))
    \/ FgWait
    \/ FgReadCur
    \/ FgWriteCur
    \/ FgKick

SpecColl == InitColl /\ [][NextColl]_vars

\* captures earlier than the programmed pulse by more than BIT_WAIT_TIME
EarlyCellTimes ==
    {v \in {0, EARLY, pwmMatch - BIT_WAIT_TIME - 1} :
        v >= 0 /\ v < pwmMatch - BIT_WAIT_TIME}

\* the handler's result for the timeout in the current state
OnTimeout == timerInterruptHandler(Cur, Event(FALSE, TRUE, 0), 0)

\* C13: in SEND_BIT_WAIT a capture earlier than match(pwmChannel) -
\* BIT_WAIT_TIME sets the collision flag, disarms the PWM and moves to
\* RECV_BYTE; the flag stays set while that reception lasts, and the
\* handleTelegram that ends it arms neither ACK nor NACK, leaves telegramLen,
\* sendTries, the send slots and the queued telegram as they are, clears
\* the flag and enters SEND_INIT, from where the telegram is sent again.
C13_CellCollision ==
    /\ state = "SEND_BIT_WAIT" =>
          \A v \in EarlyCellTimes :
            LET post == OnCapture(v) IN
            /\ post.collision
            /\ post.pwmMatch = MATCH_OFF
            /\ post.state = "RECV_BYTE"
    /\ collision => state \in {"RECV_BYTE", "RECV_START"}
    /\ collision /\ state = "RECV_START" =>
          LET post == OnTimeout IN
          /\ post.sendAck = 0
          /\ post.telegramLen = telegramLen
          /\ post.sendTries = sendTries
          /\ post.sendCurTelegram = sendCurTelegram
          /\ post.sendNextTel = sendNextTel
          /\ post.buf = buf
          /\ ~post.collision
          /\ post.state = "SEND_INIT"
    /\ state = "SEND_INIT" /\ rxEnd.ran /\ rxEnd.collision =>
          /\ sendAck = 0 /\ ~rxEnd.pub
          /\ sendCurTelegram # 0 =>
                OnTimeout.state = "SEND_START_BIT"
                /\ OnTimeout.sendCurTelegram = sendCurTelegram

\* after a collision in a 1 cell that ended with 8 bytes or more in the
\* buffer, the telegram published before is still published and the
\* interrupted telegram is being sent again
C13_RetriedAfterCollision ==
    /\ state = "SEND_START_BIT"
    /\ rxEnd.ran /\ rxEnd.collision /\ rxEnd.n >= 8
    /\ sendAck = 0
    /\ sendCurTelegram # 0
    /\ attempts[sendCurTelegram] = 2
    /\ telegramLen = 8

---------------------------------------------------------------------------
(* Replies: peers answer the Bus's telegrams with single bytes *)

\* ACK, NACK, BUSY, an ACK with a bad parity bit and a spike
ReplyFrames ==
    {<<Word(SB_BUS_ACK)>>, <<Word(SB_BUS_NACK)>>, <<Word(SB_BUS_BUSY)>>,
     <<BadWord(SB_BUS_ACK)>>, <<Word(255)>>}

InitReply ==
    InitBus /\ InitHist /\ InitFg(RetryCalls) /\ InitPeer(MaxReplies) /\ InitCfg

NextReply ==
    \/ TimerMatch
    \/ OwnEdge
    \/ PeerBegin(ReplyFrames, state = "SEND_WAIT", {Late})
    \/ PeerBegin(ReplyFrames, state = "IDLE", AnyTime)
    \/ PeerEdge
    \/ Foreground

SpecReply == InitReply /\ [][NextReply]_vars

\* the timeout that ends a collision free reception of one byte is due
OneByteEnds == state = "RECV_START" /\ ~collision /\ nextByteIndex = 1

\* C14: when handleTelegram ends a collision free reception of exactly one
\* byte it calls sendNextTelegram if and only if sendCurTelegram is not null
\* and the byte is SB_BUS_ACK or sendTries > 3; in both cases it arms neither
\* ACK nor NACK and leaves telegramLen as it is.  Any other byte with
\* sendTries <= 3 leaves the telegram queued.
C14_SingleByte ==
    /\ state = "RECV_START" /\ ~collision => nextByteIndex = Len(rxLog)
    /\ OneByteEnds =>
          LET post == OnTimeout
              cur == sendCurTelegram
              advance == /\ cur # 0
                         /\ \/ Byte(rxLog[1]) = SB_BUS_ACK
                            \/ sendTries > SEND_TRIES_LIMIT
          IN  /\ post.sendAck = 0
              /\ post.telegramLen = telegramLen
              /\ post.state = "SEND_INIT"
              /\ IF advance
                 THEN /\ At(post.buf[cur], 0) = 0
                      /\ post.sendCurTelegram = sendNextTel
                      /\ post.sendNextTel = 0
                      /\ post.sendTries = 0
                 ELSE /\ post.buf = buf
                      /\ post.sendCurTelegram = cur
                      /\ post.sendNextTel = sendNextTel
                      /\ post.sendTries = sendTries

\* a NACK answered the repeated telegram, which stays queued
C14_NackKeepsTelegram ==
    /\ state = "SEND_INIT"
    /\ rxEnd.ran /\ ~rxEnd.collision
    /\ rxEnd.words = <<Word(SB_BUS_NACK)>>
    /\ sendCurTelegram # 0
    /\ sendTries = 3
    /\ sendCurTelegram \in held
    /\ At(buf[sendCurTelegram], 0) # 0

---------------------------------------------------------------------------
(* Long receptions: frames of more bytes than the telegram buffer holds,  *)
(* and a collision in the last octet of the longest telegram the Bus sends *)

\* the longest telegram of the application: 22 octets and the checksum
TplLong ==
    [i \in 1..(SB_TELEGRAM_SIZE - 1) |->
        IF i = 1 THEN 188 ELSE IF i = 6 THEN 127 ELSE 255]

LongFrames == {[i \in 1..MaxFrameLen |-> Word(IF i % 2 = 1 THEN 254 ELSE 127)]}

TailFrames == {<<Word(255), Word(254), Word(127)>>}

InitLong ==
    InitBus /\ InitHist /\ InitFg(1) /\ InitPeer(1) /\ InitCfg

NextLong ==
    \/ TimerMatch
    \/ OwnEdge
    \/ PeerBegin(LongFrames, state = "IDLE", AnyTime)
    \/ PeerBegin(TailFrames,
                 state = "SEND_BIT_WAIT"
                    /\ nextByteIndex >= SB_TELEGRAM_SIZE - 2, {EARLY})
    \/ PeerEdge
    \/ FgCall(1, TplLong)
    \/ FgWait
    \/ FgReadCur
    \/ FgWriteCur
    \/ FgKick

SpecLong == InitLong /\ [][NextLong]_vars

\* C15: nextByteIndex never exceeds SB_TELEGRAM_SIZE, on receptions from
\* IDLE and on receptions entered from a send state; the end of a received
\* byte stores it at telegram[nextByteIndex], an index below
\* SB_TELEGRAM_SIZE, and when the buffer is full it changes neither
\* telegram[], nextByteIndex nor the checksum.
C15_BufferBound ==
    /\ nextByteIndex <= SB_TELEGRAM_SIZE
    /\ DOMAIN telegram = 0..(SB_TELEGRAM_SIZE - 1)
    /\ state = "RECV_BYTE" =>
          LET post == OnTimeout IN
          IF nextByteIndex < SB_TELEGRAM_SIZE
          THEN /\ post.nextByteIndex = nextByteIndex + 1
               /\ post.telegram =
                     [telegram EXCEPT ![nextByteIndex] = Byte(post.currentByte)]
               /\ post.checksum = Xor(checksum, post.currentByte)
          ELSE /\ post.nextByteIndex = nextByteIndex
               /\ post.telegram = telegram
               /\ post.checksum = checksum

\* a frame of more bytes than the buffer holds was received from IDLE
C15_BufferFull ==
    /\ state = "RECV_START"
    /\ ~collision
    /\ nextByteIndex = SB_TELEGRAM_SIZE
    /\ Len(rxLog) = MaxFrameLen

---------------------------------------------------------------------------
(* Claims about the release of telegrams *)

\* a step releases only telegrams of which an attempt has reached SEND_END
ReleasedAfterSent ==
    \A b \in held : b \notin held' => completed[b] >= 1

\* C16: the handler writes octet 0 of a telegram to 0 only after an attempt
\* of that telegram has run to SEND_END; a telegram that is queued but was
\* not sent yet is never released, whatever bytes are received meanwhile.
C16_ReleaseAfterSend == [][ReleasedAfterSent]_vars

---------------------------------------------------------------------------
(* Claims about the receive accumulators *)

\* the first byte of a frame is being received, on a path without collision
FirstByte == state = "RECV_BYTE" /\ ~collision /\ rxLog = <<>>

\* C17: whenever the receiver starts to receive the first byte of a frame,
\* from IDLE, from SEND_INIT or SEND_WAIT giving way to a capture, or from
\* SEND_START_BIT surrendering the line, nextByteIndex = 0, checksum = 0xff
\* and valid = 1.
C17_FreshAccumulators ==
    FirstByte => nextByteIndex = 0 /\ checksum = 255 /\ valid = 1

---------------------------------------------------------------------------
(* Round trip: a second Bus object listens to what the Bus sends.  Both    *)
(* timers count microseconds; the timer of the sender is reset by its time *)
(* match, the timer of the listener by its time match and by the           *)
(* timer.restart() of RECV_START.  The pulse the PWM match of the sender    *)
(* starts is a falling edge on the line: it is captured by the listener    *)
(* and, when the sender's capture interrupt is on, by the sender.          *)

\* the second Bus object after its begin(); it owns the destination of TplA
Listener ==
    [state |-> "IDLE", sendAck |-> 0, sendCurTelegram |-> 0,
     sendNextTel |-> 0, collision |-> FALSE, nextByteIndex |-> 0,
     checksum |-> 0, valid |-> 0, currentByte |-> 0, bitTime |-> 0,
     bitMask |-> 0, parity |-> 0,
     telegram |-> [i \in 0..(SB_TELEGRAM_SIZE - 1) |-> 0], telegramLen |-> 0,
     sendTries |-> 0, sendTelegramLen |-> 0, pwmMatch |-> MATCH_OFF,
     timeMatch |-> MATCH_IDLE, timeInt |-> FALSE, capInt |-> TRUE,
     buf |-> <<>>, fault |-> FALSE,
     ownAddr |-> OWN_ADDR, addrTab |-> {}, statusTL |-> TRUE, pub |-> FALSE]

TripOctets == 0..255

\* the telegrams sent: two priorities, two lengths, every value of octet 6
TripTpls ==
    {<<c, 0, 0, 255, 255, 112, x, 0>> : c \in {188, 176}, x \in TripOctets}
    \cup {<<188, 0, 0, 255, 255, 113, x, 85, 0>> : x \in TripOctets}

TripAddrs == {4353, 255}

\* the listener is receiving
Listening == rx.state \in {"IDLE", "RECV_START", "RECV_BYTE"}

\* the sender's PWM match is still ahead in this period of its timer
TxEdgeDue == pwmMatch # MATCH_OFF /\ txClock < pwmMatch /\ pwmMatch <= timeMatch

\* microseconds until the next event of the sender and of the listener
TxWait == IF TxEdgeDue THEN pwmMatch - txClock ELSE timeMatch - txClock
RxWait == rx.timeMatch - rxClock

\* the sender's pulse starts: both capture the edge; RECV_START restarts the
\* listener's timer
TripEdge ==
    /\ Listening /\ timeInt /\ TxEdgeDue
    /\ rx.timeInt => TxWait <= RxWait
    /\ IF capInt
       THEN Interrupt(Event(TRUE, FALSE, pwmMatch), FALSE)
       ELSE UNCHANGED <<busVars, histVars>>
    /\ txClock' = pwmMatch
    /\ rx' = timerInterruptHandler(rx, Event(TRUE, FALSE, rxClock + TxWait), 0)
    /\ rxClock' = IF rx.state \in {"IDLE", "RECV_START"} THEN 0
                  ELSE rxClock + TxWait
    /\ UNCHANGED <<cfgVars, fgVars, peerVars>>

\* the sender's time match: its timer is reset and its handler runs
TripTimeout ==
    /\ Listening /\ timeInt /\ ~TxEdgeDue
    /\ rx.timeInt => TxWait <= RxWait
    /\ Interrupt(Event(FALSE, TRUE, 0), FALSE)
    /\ txClock' = 0
    /\ rxClock' = rxClock + TxWait
    /\ rx' = rx
    /\ UNCHANGED <<cfgVars, fgVars, peerVars>>

\* the listener's time match: its timer is reset and its handler runs
TripRxTimeout ==
    /\ Listening /\ rx.timeInt
    /\ timeInt => RxWait <= TxWait
    /\ rx' = timerInterruptHandler(rx, Event(FALSE, TRUE, 0), 0)
    /\ rxClock' = 0
    /\ txClock' = txClock + RxWait
    /\ UNCHANGED <<busVars, histVars, cfgVars, fgVars, peerVars>>

InitTrip ==
    /\ InitBus /\ InitHist /\ InitFg(1)
    /\ peer = NoPeer /\ peerLeft = 0
    /\ rx = Listener /\ txClock = 0 /\ rxClock = 0
    /\ \E addr \in TripAddrs : InitCfgOf(addr, TRUE)

NextTrip ==
    \/ \E tpl \in TripTpls : FgCall(1, tpl)
    \/ FgWait
    \/ FgReadCur
    \/ FgWriteCur
    \/ FgKick
    \/ TripEdge
    \/ TripTimeout
    \/ TripRxTimeout

SpecTrip == InitTrip /\ [][NextTrip]_vars

\* the listener's handleTelegram has run
TripDone == rx.state = "SEND_INIT"

\* C18: when the edges the sender programs for a telegram prepared by
\* prepareTelegram reach a listening Bus as captures, with the timeouts of
\* its own timer in between, the listener finds good parity in every byte,
\* stores exactly the octets sent in telegram[], and calls handleTelegram
\* with valid = true after the last of them.
C18_RoundTrip ==
    /\ Listening /\ rx.state = "RECV_START" => rx.valid = 1
    /\ TripDone =>
          /\ rx.nextByteIndex = fgLen + 1
          /\ \A i \in 0..fgLen : rx.telegram[i] = At(orig[fgBuf], i)
          /\ orig[fgBuf] = prepareTelegram(orig[fgBuf], fgLen, ownAddr)
          /\ rx.valid = 1 /\ rx.checksum = 0
          /\ rx.telegramLen = fgLen + 1
          /\ state \in {"SEND_END", "SEND_WAIT"}

\* the listener has taken the 9 octets of a telegram whose octet 6 is 0
C18_TelegramTaken ==
    /\ TripDone
    /\ state = "SEND_WAIT"
    /\ fgLen = 8
    /\ rx.telegramLen = 9
    /\ rx.sendAck = SB_BUS_ACK
    /\ rx.telegram[6] = 0
    /\ rx.telegram[8] = At(buf[fgBuf], 8)

\* ---------------------------------------------------------------------
\* C19: half duplex
\* ---------------------------------------------------------------------

\* the states in which the Bus receives or waits
Quiet == {"IDLE", "RECV_START", "RECV_BYTE", "SEND_WAIT", "SEND_INIT"}

\* C19: whenever the handler has returned with state in IDLE, RECV_START,
\* RECV_BYTE, SEND_WAIT or SEND_INIT, the match register of the PWM channel
\* holds 0xffff, so that no pulse is programmed while the Bus receives or
\* waits.
C19_HalfDuplex == state \in Quiet => pwmMatch = MATCH_OFF

\* a byte is being received after the Bus gave up a telegram of its own
\* during a one bit, with the telegram still queued
C19_ReceivingAfterCollision ==
    /\ state = "RECV_BYTE"
    /\ collision
    /\ sendCurTelegram # 0
    /\ pwmMatch = MATCH_OFF

\* ---------------------------------------------------------------------
\* C20: no release of an empty slot
\* ---------------------------------------------------------------------

\* SEND_INIT has armed the start bit of the current telegram for the first
\* time
FirstAttempt ==
    /\ state = "SEND_START_BIT"
    /\ sendAck = 0
    /\ sendCurTelegram # 0
    /\ attempts[sendCurTelegram] = 1

\* C20: in every reachable state sendTries > 0 implies that sendCurTelegram
\* is not null; sendNextTelegram, the unguarded call of SEND_INIT at
\* sendTries > 3 included, has never run with sendCurTelegram null (no
\* access through a null pointer); and a telegram starts its first attempt
\* with sendTries = 0.
C20_NoEmptyRelease ==
    /\ sendTries > 0 => sendCurTelegram # 0
    /\ ~fault
    /\ state \in {"SEND_WAIT", "SEND_INIT"} /\ sendAck = 0 /\ sendTries > 3 =>
          /\ sendCurTelegram # 0
          /\ ~OnTimeout.fault
          /\ OnTimeout.sendTries = 0
    /\ FirstAttempt => sendTries = 0

\* the wait after the last attempt of a telegram is over with another
\* telegram queued behind it: on the timeout SEND_INIT gives the telegram
\* up through its unguarded call and arms the first attempt of the next
C20_GivingUp ==
    /\ state = "SEND_WAIT"
    /\ sendTries > 3
    /\ sendCurTelegram # 0
    /\ sendNextTel # 0
    /\ completed[sendCurTelegram] = 3
    /\ OnTimeout.state = "SEND_START_BIT"
    /\ OnTimeout.sendCurTelegram = sendNextTel
    /\ OnTimeout.sendTries = 0
    /\ At(OnTimeout.buf[sendCurTelegram], 0) = 0

===========================================================================
